---- MODULE Spec2Model ----
(***************************************************************************)
(* Model of ericfialkowski/showBranches: the vendored env package (typed   *)
(* environment-variable resolver) and the showBranches command that scans  *)
(* base directories for git checkouts.                                     *)
(*                                                                         *)
(* A Go string is a sequence of one-character strings, so that parsing is  *)
(* computed character by character the way strconv and time do it.         *)
(***************************************************************************)
EXTENDS Integers, Sequences, FiniteSets, TLC

(***************************************************************************)
(* Characters and digit strings                                            *)
(***************************************************************************)
DigitChars == <<"0", "1", "2", "3", "4", "5", "6", "7", "8", "9">>

Digits == {DigitChars[i] : i \in 1..10}

IsDigit(c) == c \in Digits

DigitVal(c) == (CHOOSE i \in 1..10 : DigitChars[i] = c) - 1

AllDigits(s) == \A i \in 1..Len(s) : IsDigit(s[i])

\* s without its first n characters (Go's s[n:])
Drop(s, n) == SubSeq(s, n + 1, Len(s))

\* length of the longest prefix of s made of digits
RECURSIVE DigitPrefixLen(_)
DigitPrefixLen(s) ==
    IF s = <<>> \/ ~IsDigit(s[1]) THEN 0 ELSE 1 + DigitPrefixLen(Tail(s))

TakeDigits(s) == SubSeq(s, 1, DigitPrefixLen(s))

DropDigits(s) == Drop(s, DigitPrefixLen(s))

\* a leading sign, and s without it
Signed(s) == s # <<>> /\ s[1] \in {"+", "-"}

Negative(s) == s # <<>> /\ s[1] = "-"

Unsigned(s) == IF Signed(s) THEN Tail(s) ELSE s

\* digit string without leading zeros
RECURSIVE StripZeros(_)
StripZeros(s) ==
    IF s # <<>> /\ s[1] = "0" THEN StripZeros(Tail(s)) ELSE s

\* digit string without trailing zeros
RECURSIVE StripTrailingZeros(_)
StripTrailingZeros(s) ==
    IF s # <<>> /\ s[Len(s)] = "0"
    THEN StripTrailingZeros(SubSeq(s, 1, Len(s) - 1)) ELSE s

\* value of a digit string of at most nine significant digits
RECURSIVE DigitsToInt(_)
DigitsToInt(s) ==
    IF s = <<>> THEN 0
    ELSE 10 * DigitsToInt(SubSeq(s, 1, Len(s) - 1)) + DigitVal(s[Len(s)])

\* a > b for digit strings of equal length (lexicographic = numeric)
RECURSIVE DigitsGreater(_, _)
DigitsGreater(a, b) ==
    IF a = <<>> THEN FALSE
    ELSE IF a[1] # b[1] THEN DigitVal(a[1]) > DigitVal(b[1])
    ELSE DigitsGreater(Tail(a), Tail(b))

\* magnitude comparison of two digit strings without leading zeros
MagGreater(a, b) ==
    \/ Len(a) > Len(b)
    \/ Len(a) = Len(b) /\ DigitsGreater(a, b)

RECURSIVE Pow10(_)
Pow10(n) == IF n = 0 THEN 1 ELSE 10 * Pow10(n - 1)

(***************************************************************************)
(* strconv.ParseBool: a switch over twelve literals                        *)
(***************************************************************************)
TrueLiterals ==
    { <<"1">>, <<"t">>, <<"T">>, <<"T", "R", "U", "E">>,
      <<"t", "r", "u", "e">>, <<"T", "r", "u", "e">> }

FalseLiterals ==
    { <<"0">>, <<"f">>, <<"F">>, <<"F", "A", "L", "S", "E">>,
      <<"f", "a", "l", "s", "e">>, <<"F", "a", "l", "s", "e">> }

ParseBool(str) ==
    IF str \in TrueLiterals THEN [val |-> TRUE, err |-> FALSE]
    ELSE IF str \in FalseLiterals THEN [val |-> FALSE, err |-> FALSE]
    ELSE [val |-> FALSE, err |-> TRUE]

(***************************************************************************)
(* strconv.Atoi: base 10, optional sign, the platform's 64-bit int.        *)
(* The range test is made on the digit string; the value is computed for   *)
(* literals of at most nine significant digits (longer in-range literals   *)
(* are outside the sampled environment values).                            *)
(***************************************************************************)
\* 2^63 - 1 and 2^63 as digit strings
MaxInt64Digits ==
    <<"9", "2", "2", "3", "3", "7", "2", "0", "3", "6",
      "8", "5", "4", "7", "7", "5", "8", "0", "7">>

MinInt64Digits ==
    <<"9", "2", "2", "3", "3", "7", "2", "0", "3", "6",
      "8", "5", "4", "7", "7", "5", "8", "0", "8">>

Atoi(s) ==
    LET neg    == Negative(s)
        body   == Unsigned(s)
        sig    == StripZeros(Unsigned(s))
        limit  == IF neg THEN MinInt64Digits ELSE MaxInt64Digits
    IN  IF body = <<>> \/ ~AllDigits(body) THEN [val |-> 0, err |-> TRUE]
        ELSE IF MagGreater(sig, limit) THEN [val |-> 0, err |-> TRUE]
        ELSE [val |-> IF neg THEN 0 - DigitsToInt(sig) ELSE DigitsToInt(sig),
              err |-> FALSE]

(***************************************************************************)
(* strconv.ParseFloat(s, 64), decimal and special forms.  A finite float   *)
(* is denoted by the decimal it was rounded from, digits * 10^exp with     *)
(* digits free of leading and trailing zeros, and by the width it was      *)
(* rounded to.  Hexadecimal floats (0x1p-2) are outside the sampled        *)
(* environment values.                                                     *)
(***************************************************************************)
Float(bits, kind, neg, digits, exp) ==
    [bits |-> bits, kind |-> kind, neg |-> neg, digits |-> digits, exp |-> exp]

Zero64 == Float(64, "fin", FALSE, <<>>, 0)

Zero32 == Float(32, "fin", FALSE, <<>>, 0)

UpperLetters ==
    <<"A", "B", "C", "D", "E", "F", "G", "H", "I", "J", "K", "L", "M", "N",
      "O", "P", "Q", "R", "S", "T", "U", "V", "W", "X", "Y", "Z">>

LowerLetters ==
    <<"a", "b", "c", "d", "e", "f", "g", "h", "i", "j", "k", "l", "m", "n",
      "o", "p", "q", "r", "s", "t", "u", "v", "w", "x", "y", "z">>

\* ASCII lower-casing of one character
LowerChar(c) ==
    IF \E i \in 1..26 : UpperLetters[i] = c
    THEN LowerLetters[CHOOSE i \in 1..26 : UpperLetters[i] = c]
    ELSE c

Lower(s) == [i \in 1..Len(s) |-> LowerChar(s[i])]

\* a digit string padded with zeros on the right to length n
PadRight(d, n) == d \o [i \in 1..(n - Len(d)) |-> "0"]

\* digits * 10^exp lies above 0.limit * 10^mag
AboveLimit(digits, exp, limit, mag) ==
    LET m == Len(digits) + exp
        n == IF Len(digits) > Len(limit) THEN Len(digits) ELSE Len(limit)
    IN  \/ m > mag
        \/ m = mag /\ DigitsGreater(PadRight(digits, n), PadRight(limit, n))

\* halfway between the largest float64 and 2^1024: 1.7976931348623158e308
MaxFloat64Digits ==
    <<"1", "7", "9", "7", "6", "9", "3", "1", "3",
      "4", "8", "6", "2", "3", "1", "5", "8">>

\* halfway between the largest float32 and 2^128: 3.4028235677973366e38
MaxFloat32Digits ==
    <<"3", "4", "0", "2", "8", "2", "3", "5", "6",
      "7", "7", "9", "7", "3", "3", "6", "6">>

\* strconv's special(): inf, infinity (signed) and nan (unsigned), any case
ParseSpecial(s) ==
    LET signed == Signed(s)
        neg    == Negative(s)
        body   == Lower(Unsigned(s))
    IN  IF body \in { <<"i", "n", "f">>,
                      <<"i", "n", "f", "i", "n", "i", "t", "y">> }
        THEN [ok |-> TRUE, val |-> Float(64, "inf", neg, <<>>, 0)]
        ELSE IF ~signed /\ body = <<"n", "a", "n">>
        THEN [ok |-> TRUE, val |-> Float(64, "nan", FALSE, <<>>, 0)]
        ELSE [ok |-> FALSE, val |-> Zero64]

\* the rounding to 64 bits of the decimal int.frac * 10^(+-ed), once scanned
DecimalValue(neg, int, frac, eneg, ed) ==
    LET lead   == StripZeros(int \o frac)
        digits == StripTrailingZeros(StripZeros(int \o frac))
        e      == DigitsToInt(StripZeros(ed))
        exp    == (IF eneg THEN 0 - e ELSE e) - Len(frac) + (Len(lead) - Len(digits))
    IN  IF digits = <<>>
        THEN [val |-> Float(64, "fin", neg, <<>>, 0), err |-> FALSE]
        ELSE IF AboveLimit(digits, exp, MaxFloat64Digits, 309)
        THEN [val |-> Float(64, "inf", neg, <<>>, 0), err |-> TRUE]
        ELSE IF Len(digits) + exp <= 0 - 324
        THEN [val |-> Float(64, "fin", neg, <<>>, 0), err |-> FALSE]
        ELSE [val |-> Float(64, "fin", neg, digits, exp), err |-> FALSE]

SyntaxError64 == [val |-> Zero64, err |-> TRUE]

\* strconv's readFloat, stage by stage: the exponent, then the end of s
DecimalExponent(neg, int, frac, s) ==
    IF int \o frac = <<>> THEN SyntaxError64
    ELSE IF s # <<>> /\ s[1] \in {"e", "E"}
    THEN IF TakeDigits(Unsigned(Tail(s))) = <<>>
            \/ DropDigits(Unsigned(Tail(s))) # <<>>
         THEN SyntaxError64
         ELSE DecimalValue(neg, int, frac, Negative(Tail(s)),
                           TakeDigits(Unsigned(Tail(s))))
    ELSE IF s # <<>> THEN SyntaxError64
    ELSE DecimalValue(neg, int, frac, FALSE, <<>>)

\* the digits after the point, if there is one
DecimalFraction(neg, int, s) ==
    IF s # <<>> /\ s[1] = "."
    THEN DecimalExponent(neg, int, TakeDigits(Tail(s)), DropDigits(Tail(s)))
    ELSE DecimalExponent(neg, int, <<>>, s)

\* the sign and the digits before the point
ParseDecimal(s) ==
    DecimalFraction(Negative(s), TakeDigits(Unsigned(s)), DropDigits(Unsigned(s)))

ParseFloat(s) ==
    LET sp == ParseSpecial(s)
    IN  IF sp.ok THEN [val |-> sp.val, err |-> FALSE] ELSE ParseDecimal(s)

\* the Go conversion float32(r) of a float64 r
Float32Of(r) ==
    IF r.kind # "fin" \/ r.digits = <<>>
    THEN Float(32, r.kind, r.neg, <<>>, 0)
    ELSE IF AboveLimit(r.digits, r.exp, MaxFloat32Digits, 39)
    THEN Float(32, "inf", r.neg, <<>>, 0)
    ELSE IF Len(r.digits) + r.exp <= 0 - 46
    THEN Float(32, "fin", r.neg, <<>>, 0)
    ELSE Float(32, "fin", r.neg, r.digits, r.exp)

(***************************************************************************)
(* time.ParseDuration: an optional sign, then one or more components,      *)
(* each a decimal number (digits, optional '.' and digits) and a unit.     *)
(* A time.Duration is an int64 count of nanoseconds; it is kept as hours,  *)
(* seconds (below 3600) and nanoseconds (below 10^9) with a sign.          *)
(* The micro-sign spellings of "us" and fractions of more than three       *)
(* digits are outside the sampled environment values.                      *)
(***************************************************************************)
Dur(neg, h, s, ns) == [neg |-> neg, h |-> h, s |-> s, ns |-> ns]

ZeroDuration == Dur(FALSE, 0, 0, 0)

NanosPerSecond == 1000000000

SecondsPerHour == 3600

\* carry nanoseconds into seconds and seconds into hours
Normalize(h, s, ns) ==
    LET s2 == s + (ns \div NanosPerSecond)
    IN  [h  |-> h + (s2 \div SecondsPerHour),
         s  |-> s2 % SecondsPerHour,
         ns |-> ns % NanosPerSecond]

\* time's unitMap: the unit as whole seconds or as nanoseconds
UnitMap ==
    [u \in { <<"n", "s">>, <<"u", "s">>, <<"m", "s">>, <<"s">>, <<"m">>, <<"h">> } |->
        CASE u = <<"n", "s">> -> [sec |-> 0, ns |-> 1]
          [] u = <<"u", "s">> -> [sec |-> 0, ns |-> 1000]
          [] u = <<"m", "s">> -> [sec |-> 0, ns |-> 1000000]
          [] u = <<"s">>      -> [sec |-> 1, ns |-> 0]
          [] u = <<"m">>      -> [sec |-> 60, ns |-> 0]
          [] u = <<"h">>      -> [sec |-> 3600, ns |-> 0]]

\* length of the unit: up to the next '.' or digit
RECURSIVE UnitLen(_)
UnitLen(s) ==
    IF s = <<>> \/ s[1] = "." \/ IsDigit(s[1]) THEN 0 ELSE 1 + UnitLen(Tail(s))

\* 1<<63 nanoseconds is 2562047h 2836s 854775808ns
Exceeds(d, ns) ==
    \/ d.h > 2562047
    \/ d.h = 2562047 /\ d.s > 2836
    \/ d.h = 2562047 /\ d.s = 2836 /\ d.ns > ns

\* v * unit > 1<<63 for an integer part v given as digits
UnitOverflow(vd, unit) ==
    \/ unit.sec = 3600 /\ MagGreater(vd, <<"2", "5", "6", "2", "0", "4", "7">>)
    \/ unit.sec = 60
         /\ MagGreater(vd, <<"1", "5", "3", "7", "2", "2", "8", "6", "7">>)

\* v * unit + f * (unit / scale), for v and f of at most nine digits
Component(v, f, k, unit) ==
    LET scale == Pow10(k)
    IN  IF unit.sec > 0
        THEN LET per == SecondsPerHour \div unit.sec
                 fs  == f * unit.sec
             IN  Normalize(v \div per,
                           (v % per) * unit.sec + (fs \div scale),
                           (fs % scale) * (NanosPerSecond \div scale))
        ELSE LET per == NanosPerSecond \div unit.ns
             IN  Normalize(0, v \div per,
                           (v % per) * unit.ns + ((f * unit.ns) \div scale))

InvalidDuration == [val |-> ZeroDuration, err |-> TRUE]

RECURSIVE DurationLoop(_, _)

\* d plus the component c, and on to the rest of the string
DurationAdd(d, c, rest) ==
    IF Exceeds(c, 854775808) THEN [d |-> d, err |-> TRUE]
    ELSE DurationLoop(rest, Normalize(d.h + c.h, d.s + c.s, d.ns + c.ns))

\* one component: integer digits vd, fraction digits fd, then unit u
DurationUnit(d, vd, fd, pre, post, u, rest) ==
    IF \/ MagGreater(vd, MinInt64Digits)
       \/ ~pre /\ ~post
       \/ u = <<>>
       \/ u \notin DOMAIN UnitMap
    THEN [d |-> d, err |-> TRUE]
    ELSE IF UnitOverflow(vd, UnitMap[u]) THEN [d |-> d, err |-> TRUE]
    ELSE DurationAdd(d, Component(DigitsToInt(vd), DigitsToInt(fd), Len(fd),
                                  UnitMap[u]), rest)

\* after the integer digits: the optional fraction
DurationFraction(d, int, s) ==
    IF s # <<>> /\ s[1] = "."
    THEN DurationUnit(d, StripZeros(int), TakeDigits(Tail(s)),
                      int # <<>>, TakeDigits(Tail(s)) # <<>>,
                      SubSeq(DropDigits(Tail(s)), 1, UnitLen(DropDigits(Tail(s)))),
                      Drop(DropDigits(Tail(s)), UnitLen(DropDigits(Tail(s)))))
    ELSE DurationUnit(d, StripZeros(int), <<>>, int # <<>>, FALSE,
                      SubSeq(s, 1, UnitLen(s)), Drop(s, UnitLen(s)))

\* the loop of ParseDuration over the components of s, d the sum so far
DurationLoop(s, d) ==
    IF Exceeds(d, 854775808) THEN [d |-> d, err |-> TRUE]
    ELSE IF s = <<>> THEN [d |-> d, err |-> FALSE]
    ELSE IF ~(s[1] = "." \/ IsDigit(s[1])) THEN [d |-> d, err |-> TRUE]
    ELSE DurationFraction(d, TakeDigits(s), DropDigits(s))

DurationResult(neg, body, r) ==
    IF body = <<"0">> THEN [val |-> ZeroDuration, err |-> FALSE]
    ELSE IF body = <<>> \/ r.err THEN InvalidDuration
    ELSE IF ~neg /\ Exceeds(r.d, 854775807) THEN InvalidDuration
    ELSE [val |-> Dur(neg /\ ~(r.d.h = 0 /\ r.d.s = 0 /\ r.d.ns = 0),
                      r.d.h, r.d.s, r.d.ns),
          err |-> FALSE]

ParseDuration(s) ==
    DurationResult(Negative(s), Unsigned(s),
                   DurationLoop(Unsigned(s), [h |-> 0, s |-> 0, ns |-> 0]))

(***************************************************************************)
(* The process: its environment, the last call into package env with what  *)
(* it returned, and the panic that ended the process, if any.              *)
(***************************************************************************)
VARIABLES
    env,        \* the environment: a function from the names that are set
    call,       \* the last call: [fn, key, dflt]
    ret,        \* the values that call returned, in order
    panic,      \* NoPanic, or the value the process panicked with
    repeat,     \* whether the last call repeated the one before, and its ret
    argv,       \* command line of showBranches: [d, dirs]
    diffs,      \* the -d flag
    pc,         \* where showBranches is
    todo,       \* the base directories main has still to print
    base,       \* the base directory being scanned
    dirs,       \* what os.ReadDir returned for it
    idx,        \* the next entry of dirs
    data,       \* the table getBranchInfo builds
    cur,        \* the entry handled last: what it is and what became of it
    rendered,   \* the base directories whose table was rendered, in order
    exit        \* the exit status, -1 while the process runs

resolverVars == <<env, call, ret, panic, repeat>>

scanVars == <<argv, diffs, pc, todo, base, dirs, idx, data, cur, rendered, exit>>

vars == <<env, call, ret, panic, repeat,
          argv, diffs, pc, todo, base, dirs, idx, data, cur, rendered, exit>>

NoPanic == <<>>

NoCall == [fn |-> "none", key |-> "", dflt |-> <<>>]

NoRepeat == [same |-> FALSE, ret |-> <<>>]

(***************************************************************************)
(* Bounds and sampled inputs                                               *)
(***************************************************************************)
\* how many variables the sampled environments set at once
MaxSet == 1

Keys == {"PORT", "DEBUG"}

\* the values an environment variable is sampled from
Values ==
    {
      <<>>,
      <<"1">>,
      <<"0">>,
      <<"t">>,
      <<"t", "r", "u", "e">>,
      <<"T", "R", "U", "E">>,
      <<"F">>,
      <<"f", "a", "l", "s", "e">>,
      <<"y", "e", "s">>,
      <<"4", "2">>,
      <<"-", "7">>,
      <<"+", "5">>,
      <<"0", "0", "7">>,
      <<"3", ".", "5">>,
      <<".", "5">>,
      <<"1", "e", "3">>,
      <<"1", "e", "4", "0", "0">>,
      <<"1", "e", "3", "9">>,
      <<"i", "n", "f">>,
      <<"N", "a", "N">>,
      <<"a", "b", "c">>,
      <<"1", "h", "3", "0", "m">>,
      <<"3", "0", "0", "m", "s">>,
      <<"-", "5", "s">>,
      <<"1", ".", "5", "h">>,
      <<"2", "5", "6", "2", "0", "4", "8", "h">>,
      <<" ", "4", "2">>,
      <<"-", "0">>,
      <<"9", "9", "9", "9", "9", "9", "9", "9", "9", "9", "9", "9", "9", "9", "9", "9", "9", "9", "9", "9">>
    }

Environments ==
    UNION {[S -> Values] : S \in {T \in SUBSET Keys : Cardinality(T) <= MaxSet}}

StringDefaults == { <<>>, <<".">>, <<"4", "2">> }

BoolDefaults == BOOLEAN

IntDefaults == {0, 8080}

Float32Defaults == {Zero32, Float(32, "fin", FALSE, <<"2", "5">>, 0 - 1)}

Float64Defaults == {Zero64, Float(64, "fin", FALSE, <<"2", "5">>, 0 - 1)}

DurationDefaults == {ZeroDuration, Dur(FALSE, 0, 30, 0)}

(***************************************************************************)
(* os.LookupEnv and os.Getenv                                              *)
(***************************************************************************)
LookupEnv(key) ==
    IF key \in DOMAIN env THEN [val |-> env[key], ok |-> TRUE]
    ELSE [val |-> <<>>, ok |-> FALSE]

Getenv(key) == LookupEnv(key).val

(***************************************************************************)
(* Package env.  A function is modelled by its outcome in the present      *)
(* state: the values it returns or the value it panics with, and the       *)
(* environment it leaves behind.  No function of the package writes the    *)
(* environment, so every outcome carries env itself.                       *)
(***************************************************************************)
Return(values) == [ret |-> values, panic |-> NoPanic, env |-> env]

Panic(value) == [ret |-> <<>>, panic |-> value, env |-> env]

\* the environment after os.Setenv(key, value): what a caching variant does
Setenv(key, value) ==
    [k \in DOMAIN env \cup {key} |-> IF k = key THEN value ELSE env[k]]

StringOrDefault_Caching(key, defaultValue) ==
    LET r == LookupEnv(key)
    IN  IF ~r.ok
        THEN [ret |-> <<defaultValue>>, panic |-> NoPanic,
              env |-> Setenv(key, defaultValue)]
        ELSE Return(<<r.val>>)

StringOrDefault_EmptyIsAbsent(key, defaultValue) ==
    LET envVal == Getenv(key)
    IN  IF envVal = <<>> THEN Return(<<defaultValue>>) ELSE Return(<<envVal>>)

StringOrDefault(key, defaultValue) ==
    LET r == LookupEnv(key)
    IN  IF ~r.ok THEN Return(<<defaultValue>>) ELSE Return(<<r.val>>)

\* fmt.Sprintf("Missing required environment variable value for %s", key)
MissingMessage(key) ==
    <<"Missing required environment variable value for ", key>>

MustString_EmptyIsAbsent(key) ==
    LET envVal == Getenv(key)
    IN  IF envVal = <<>> THEN Panic(MissingMessage(key)) ELSE Return(<<envVal>>)

MustString(key) ==
    LET r == LookupEnv(key)
    IN  IF ~r.ok THEN Panic(MissingMessage(key)) ELSE Return(<<r.val>>)

String(key) ==
    LET r == LookupEnv(key)
    IN  Return(<<r.val, r.ok>>)

BoolOrDefault(key, defaultValue) ==
    LET e == LookupEnv(key)
        r == ParseBool(LookupEnv(key).val)
    IN  IF ~e.ok THEN Return(<<defaultValue>>)
        ELSE IF r.err THEN Return(<<defaultValue>>)
        ELSE Return(<<r.val>>)

Bool(key) ==
    LET e == LookupEnv(key)
        r == ParseBool(LookupEnv(key).val)
    IN  IF ~e.ok THEN Return(<<FALSE, FALSE>>)
        ELSE IF r.err THEN Return(<<FALSE, FALSE>>)
        ELSE Return(<<r.val, TRUE>>)

IntOrDefault_ZeroWhenUnset(key, defaultValue) ==
    LET envVal == Getenv(key)
        r      == Atoi(Getenv(key))
    IN  IF envVal = <<>> THEN Return(<<0>>)
        ELSE IF r.err THEN Return(<<defaultValue>>)
        ELSE Return(<<r.val>>)

IntOrDefault(key, defaultValue) ==
    LET envVal == Getenv(key)
        r      == Atoi(Getenv(key))
    IN  IF envVal = <<>> THEN Return(<<defaultValue>>)
        ELSE IF r.err THEN Return(<<defaultValue>>)
        ELSE Return(<<r.val>>)

\* env.Int (the name Int is taken by the Integers module)
Int_(key) ==
    LET e == LookupEnv(key)
        r == Atoi(LookupEnv(key).val)
    IN  IF ~e.ok THEN Return(<<0, FALSE>>)
        ELSE IF r.err THEN Return(<<0, FALSE>>)
        ELSE Return(<<r.val, TRUE>>)

DurationOrDefault(key, defaultValue) ==
    LET envVal == Getenv(key)
        r      == ParseDuration(Getenv(key))
    IN  IF envVal = <<>> THEN Return(<<defaultValue>>)
        ELSE IF r.err THEN Return(<<defaultValue>>)
        ELSE Return(<<r.val>>)

\* a variant that takes a set-but-empty value for a zero duration
Duration_EmptyIsZero(key) ==
    LET e == LookupEnv(key)
        r == ParseDuration(LookupEnv(key).val)
    IN  IF ~e.ok THEN Return(<<ZeroDuration, FALSE>>)
        ELSE IF e.val = <<>> THEN Return(<<ZeroDuration, TRUE>>)
        ELSE IF r.err THEN Return(<<ZeroDuration, FALSE>>)
        ELSE Return(<<r.val, TRUE>>)

Duration(key) ==
    LET e == LookupEnv(key)
        r == ParseDuration(LookupEnv(key).val)
    IN  IF ~e.ok THEN Return(<<ZeroDuration, FALSE>>)
        ELSE IF r.err THEN Return(<<ZeroDuration, FALSE>>)
        ELSE Return(<<r.val, TRUE>>)

Float32OrDefault(key, defaultValue) ==
    LET envVal == Getenv(key)
        r      == ParseFloat(Getenv(key))
    IN  IF envVal = <<>> THEN Return(<<defaultValue>>)
        ELSE IF r.err THEN Return(<<defaultValue>>)
        ELSE Return(<<Float32Of(r.val)>>)

\* a variant that forgets to test err
Float32_IgnoresErr(key) ==
    LET e == LookupEnv(key)
        r == ParseFloat(LookupEnv(key).val)
    IN  IF ~e.ok THEN Return(<<Zero32, FALSE>>)
        ELSE Return(<<Float32Of(r.val), TRUE>>)

Float32(key) ==
    LET e == LookupEnv(key)
        r == ParseFloat(LookupEnv(key).val)
    IN  IF ~e.ok THEN Return(<<Zero32, FALSE>>)
        ELSE IF r.err THEN Return(<<Zero32, FALSE>>)
        ELSE Return(<<Float32Of(r.val), TRUE>>)

Float64OrDefault(key, defaultValue) ==
    LET envVal == Getenv(key)
        r      == ParseFloat(Getenv(key))
    IN  IF envVal = <<>> THEN Return(<<defaultValue>>)
        ELSE IF r.err THEN Return(<<defaultValue>>)
        ELSE Return(<<r.val>>)

Float64(key) ==
    LET e == LookupEnv(key)
        r == ParseFloat(LookupEnv(key).val)
    IN  IF ~e.ok THEN Return(<<Zero64, FALSE>>)
        ELSE IF r.err THEN Return(<<Zero64, FALSE>>)
        ELSE Return(<<r.val, TRUE>>)

(***************************************************************************)
(* The resolver on its own: any caller, any sequence of calls, until a     *)
(* panic ends the process.                                                 *)
(***************************************************************************)
ScanIdle ==
    /\ argv = [d |-> FALSE, dirs |-> <<>>]
    /\ diffs = FALSE
    /\ pc = "idle"
    /\ todo = <<>>
    /\ base = <<>>
    /\ dirs = <<>>
    /\ idx = 1
    /\ data = <<>>
    /\ cur = [kind |-> "none"]
    /\ rendered = <<>>
    /\ exit = 0 - 1

Init ==
    /\ env \in Environments
    /\ call = NoCall
    /\ ret = <<>>
    /\ panic = NoPanic
    /\ repeat = NoRepeat
    /\ ScanIdle

\* the call fn(key, dflt) takes effect: out is the function's outcome
Invoke(fn, key, dflt, out) ==
    /\ call' = [fn |-> fn, key |-> key, dflt |-> dflt]
    /\ ret' = out.ret
    /\ panic' = out.panic
    /\ env' = out.env
    /\ repeat' = IF fn = call.fn /\ key = call.key /\ dflt = call.dflt
                 THEN [same |-> TRUE, ret |-> ret]
                 ELSE NoRepeat

\* a caller's call into the package, while the process runs
Call(fn, key, dflt, out) ==
    /\ panic = NoPanic
    /\ Invoke(fn, key, dflt, out)
    /\ UNCHANGED scanVars

Next ==
    \E key \in Keys :
        \/ \E d \in StringDefaults :
             Call("StringOrDefault", key, d, StringOrDefault(key, d))
        \/ Call("MustString", key, <<>>, MustString(key))
        \/ Call("String", key, <<>>, String(key))
        \/ \E d \in BoolDefaults :
             Call("BoolOrDefault", key, d, BoolOrDefault(key, d))
        \/ Call("Bool", key, <<>>, Bool(key))
        \/ \E d \in IntDefaults :
             Call("IntOrDefault", key, d, IntOrDefault(key, d))
        \/ Call("Int", key, <<>>, Int_(key))
        \/ \E d \in DurationDefaults :
             Call("DurationOrDefault", key, d, DurationOrDefault(key, d))
        \/ Call("Duration", key, <<>>, Duration(key))
        \/ \E d \in Float32Defaults :
             Call("Float32OrDefault", key, d, Float32OrDefault(key, d))
        \/ Call("Float32", key, <<>>, Float32(key))
        \/ \E d \in Float64Defaults :
             Call("Float64OrDefault", key, d, Float64OrDefault(key, d))
        \/ Call("Float64", key, <<>>, Float64(key))

Spec == Init /\ [][Next]_vars

(***************************************************************************)
(* showBranches (main.go): strings helpers                                 *)
(***************************************************************************)
\* index of the first sep in s, 0 if there is none
RECURSIVE IndexOf(_, _)
IndexOf(s, sep) ==
    IF s = <<>> THEN 0
    ELSE IF s[1] = sep THEN 1
    ELSE IF IndexOf(Tail(s), sep) = 0 THEN 0
    ELSE 1 + IndexOf(Tail(s), sep)

\* strings.Split(s, sep) for a one-character sep
RECURSIVE Split(_, _)
Split(s, sep) ==
    IF IndexOf(s, sep) = 0 THEN <<s>>
    ELSE <<SubSeq(s, 1, IndexOf(s, sep) - 1)>> \o Split(Drop(s, IndexOf(s, sep)), sep)

\* strings.EqualFold on ASCII strings
EqualFold(a, b) == Lower(a) = Lower(b)

\* last (main.go): the last element of strings.Split(s, sep)
last(s, sep) == Split(s, sep)[Len(Split(s, sep))]

header ==
    << <<"D", "i", "r", "e", "c", "t", "o", "r", "y">>,
       <<"R", "e", "p", "o">>,
       <<"M", "a", "i", "n", " ", "B", "r", "a", "n", "c", "h">>,
       <<"C", "u", "r", "r", "e", "n", "t", " ", "B", "r", "a", "n", "c", "h">> >>

DefaultKey == "SHOWBRANCHES_DEFAULT"

Dot == <<".">>

DotGit == <<".", "g", "i", "t">>

(***************************************************************************)
(* Bounds and sampled inputs of showBranches                               *)
(***************************************************************************)
MaxArgs == 2

MaxEntries == 2

BaseNames == { <<"a">>, <<"b">> }

\* the command lines: the -d flag and up to MaxArgs base directories
Argvs ==
    [d : BOOLEAN,
     dirs : UNION {[1..n -> BaseNames] : n \in 0..MaxArgs}]

\* SHOWBRANCHES_DEFAULT unset, or set to "a", "a b" or ""
ScanEnvironments ==
    {<<>>} \cup [{DefaultKey} -> { <<"a">>, <<"a", " ", "b">>, <<>> }]

\* the names a base directory may hold, in the order os.ReadDir sorts them
EntryNames == <<DotGit, <<"a">> >>

\* the entries named by the indices in S, in order
RECURSIVE Listing(_, _)
Listing(S, isDir) ==
    IF S = {} THEN <<>>
    ELSE LET i == CHOOSE j \in S : \A k \in S : j <= k
         IN  <<[name |-> EntryNames[i], isDir |-> isDir[i]]>>
                \o Listing(S \ {i}, isDir)

\* what os.ReadDir may return: sorted by name, at most MaxEntries entries
Listings ==
    UNION { {Listing(S, f) : f \in [S -> BOOLEAN]} :
            S \in {T \in SUBSET (1..Len(EntryNames)) : Cardinality(T) <= MaxEntries} }

\* the process's working directory, for filepath.Abs
Cwd == <<"/", "w", "/", "p", "r", "o", "j">>

OriginTargets ==
    {
      <<"r", "e", "f", "s", "/", "r", "e", "m", "o", "t", "e", "s", "/",
        "o", "r", "i", "g", "i", "n", "/", "m", "a", "i", "n">>,
      <<"r", "e", "f", "s", "/", "r", "e", "m", "o", "t", "e", "s", "/",
        "o", "r", "i", "g", "i", "n", "/", "d", "e", "v">>
    }

HeadNames ==
    {
      <<"r", "e", "f", "s", "/", "h", "e", "a", "d", "s", "/", "m", "a",
        "i", "n">>,
      <<"r", "e", "f", "s", "/", "h", "e", "a", "d", "s", "/", "d", "e", "v">>
    }

\* the "origin" entry of the repository config: absent, or its URLs
Origins ==
    { [present |-> FALSE, URLs |-> <<>>],
      [present |-> TRUE, URLs |-> <<>>],
      [present |-> TRUE, URLs |-> << <<"g", "i", "t", "@", "h", ":", "r">> >>],
      [present |-> TRUE, URLs |-> << <<"M", "A", "I", "N">> >>] }

NoOrigin == [present |-> FALSE, URLs |-> <<>>]

\* what a reference lookup returns: the reference, ErrReferenceNotFound or
\* another error
RefResults(names) ==
    {[err |-> "notfound", name |-> <<>>], [err |-> "error", name |-> <<>>]}
        \cup {[err |-> "nil", name |-> n] : n \in names}

NoRef == [err |-> "notfound", name |-> <<>>]

\* what a directory entry is: how it opens, and for a repository its config,
\* its references and whether its absolute path can be had
NotARepository(open) ==
    [open |-> open, config |-> "none", origin |-> NoOrigin, abs |-> "ok",
     originHead |-> NoRef, head |-> NoRef]

Repositories(name) ==
    [open : {"ok"}, config : {"ok"}, origin : Origins,
     abs : IF name = DotGit THEN {"ok", "error"} ELSE {"ok"},
     originHead : RefResults(OriginTargets),
     head : RefResults(HeadNames)]
    \cup
    [open : {"ok"}, config : {"error"}, origin : {NoOrigin},
     abs : {"ok"},
     originHead : RefResults(OriginTargets),
     head : RefResults(HeadNames)]

Worlds(entry) ==
    IF ~entry.isDir THEN {NotARepository("notdir")}
    ELSE {NotARepository("notexists"), NotARepository("error")}
            \cup Repositories(entry.name)

(***************************************************************************)
(* showBranches (main.go): main, printData, getBranchInfo                  *)
(***************************************************************************)
\* the values the process may panic with
ErrReadDir == <<"os.ReadDir: error">>

ErrOpen == <<"git.PlainOpen: error">>

ErrConfig == <<"Repository.Config: error">>

ErrAbs == <<"filepath.Abs: error">>

ErrReference == <<"Repository.Reference: error">>

ErrHead == <<"Repository.Head: error">>

NilDereference ==
    <<"runtime error: invalid memory address or nil pointer dereference">>

IndexOutOfRange == <<"runtime error: index out of range [0] with length 0">>

\* filepath.Abs of a relative name
Abs(name) == Cwd \o <<"/">> \o name

\* d[0]: the entry's name, or for ".git" the directory that holds it
\* (parts[len(parts)-2], counted from 0, of the absolute path)
RepoName(name) ==
    IF name = DotGit
    THEN Split(Abs(name), "/")[Len(Split(Abs(name), "/")) - 1]
    ELSE name

\* what one turn of the loop over dirs comes to
Skip == [kind |-> "skip", d |-> <<>>, panic |-> NoPanic]

Crash(value) == [kind |-> "panic", d |-> <<>>, panic |-> value]

\* the test that ends the loop body: !diffs || !strings.EqualFold(d[1], d[2])
\* with d counted from 0, so the remote URL against the main branch
AppendIfWanted(filter, d) ==
    IF ~filter \/ ~EqualFold(d[2], d[3])
    THEN [kind |-> "row", d |-> d, panic |-> NoPanic]
    ELSE [kind |-> "filtered", d |-> d, panic |-> NoPanic]

\* the body of the loop of getBranchInfo for one entry that is w
LoopBody(entry, w, filter) ==
    IF ~entry.isDir THEN Skip
    ELSE IF w.open = "notexists" THEN Skip
    ELSE IF w.open = "error" THEN Crash(ErrOpen)
    ELSE IF w.config = "error" THEN Crash(ErrConfig)
    ELSE IF entry.name = DotGit /\ w.abs = "error" THEN Crash(ErrAbs)
    ELSE IF ~w.origin.present THEN Crash(NilDereference)
    ELSE IF w.origin.URLs = <<>> THEN Crash(IndexOutOfRange)
    ELSE IF w.originHead.err = "notfound" THEN Skip
    ELSE IF w.originHead.err = "error" THEN Crash(ErrReference)
    ELSE IF w.head.err = "notfound" THEN Skip
    ELSE IF w.head.err = "error" THEN Crash(ErrHead)
    ELSE AppendIfWanted(filter,
            << RepoName(entry.name), w.origin.URLs[1],
               last(w.originHead.name, "/"), last(w.head.name, "/") >>)

NoEntry ==
    [kind |-> "none", entry |-> [name |-> <<>>, isDir |-> FALSE],
     world |-> NotARepository("notdir")]

\* main up to its loops: the default, the flags, the arguments
MainStart ==
    /\ pc = "start"
    /\ Invoke("StringOrDefault", DefaultKey, Dot, StringOrDefault(DefaultKey, Dot))
    /\ diffs' = argv.d
    /\ todo' = IF Len(argv.dirs) = 0
               THEN Split(StringOrDefault(DefaultKey, Dot).ret[1], " ")
               ELSE argv.dirs
    /\ pc' = "loop"
    /\ UNCHANGED <<argv, base, dirs, idx, data, cur, rendered, exit>>

\* printData(base) enters getBranchInfo: os.ReadDir fails or lists base
GetBranchInfoReadDir ==
    /\ pc = "loop"
    /\ todo # <<>>
    /\ base' = Head(todo)
    /\ cur' = NoEntry
    /\ \/ /\ panic' = ErrReadDir
          /\ pc' = "panicked"
          /\ exit' = 2
          /\ UNCHANGED <<dirs, idx, data>>
       \/ /\ Head(todo) # <<>>
          /\ \E listing \in Listings : dirs' = listing
          /\ idx' = 1
          /\ data' = <<header>>
          /\ pc' = "scan"
          /\ UNCHANGED <<panic, exit>>
    /\ UNCHANGED <<env, call, ret, repeat, argv, diffs, todo, rendered>>

\* one turn of the loop over dirs
GetBranchInfoEntry ==
    /\ pc = "scan"
    /\ idx <= Len(dirs)
    /\ \E w \in Worlds(dirs[idx]) :
        /\ cur' = [kind |-> LoopBody(dirs[idx], w, diffs).kind,
                   entry |-> dirs[idx], world |-> w]
        /\ data' = IF LoopBody(dirs[idx], w, diffs).kind = "row"
                   THEN Append(data, LoopBody(dirs[idx], w, diffs).d)
                   ELSE data
        /\ panic' = LoopBody(dirs[idx], w, diffs).panic
        /\ IF LoopBody(dirs[idx], w, diffs).kind = "panic"
           THEN pc' = "panicked" /\ exit' = 2 /\ idx' = idx
           ELSE pc' = "scan" /\ exit' = exit /\ idx' = idx + 1
    /\ UNCHANGED <<env, call, ret, repeat, argv, diffs, todo, base, dirs, rendered>>

\* getBranchInfo returns and printData renders the table; in the loop over
\* the default list os.Exit(0) follows, in the loop over the arguments the
\* next argument
PrintDataRender ==
    /\ pc = "scan"
    /\ idx > Len(dirs)
    /\ rendered' = Append(rendered, base)
    /\ IF Len(argv.dirs) = 0
       THEN pc' = "exited" /\ exit' = 0 /\ todo' = todo
       ELSE pc' = "loop" /\ exit' = exit /\ todo' = Tail(todo)
    /\ UNCHANGED <<env, call, ret, panic, repeat, argv, diffs, base, dirs, idx,
                   data, cur>>

\* main returns after the loop over the arguments
MainReturn ==
    /\ pc = "loop"
    /\ todo = <<>>
    /\ pc' = "exited"
    /\ exit' = 0
    /\ UNCHANGED <<env, call, ret, panic, repeat, argv, diffs, todo, base, dirs,
                   idx, data, cur, rendered>>

ScanInit ==
    /\ env \in ScanEnvironments
    /\ call = NoCall
    /\ ret = <<>>
    /\ panic = NoPanic
    /\ repeat = NoRepeat
    /\ argv \in Argvs
    /\ diffs = FALSE
    /\ pc = "start"
    /\ todo = <<>>
    /\ base = <<>>
    /\ dirs = <<>>
    /\ idx = 1
    /\ data = <<>>
    /\ cur = NoEntry
    /\ rendered = <<>>
    /\ exit = 0 - 1

ScanNext ==
    \/ MainStart
    \/ GetBranchInfoReadDir
    \/ GetBranchInfoEntry
    \/ PrintDataRender
    \/ MainReturn

ScanSpec == ScanInit /\ [][ScanNext]_vars

(***************************************************************************)
(* Properties of the resolver                                              *)
(***************************************************************************)
OrDefaultFns ==
    {"StringOrDefault", "BoolOrDefault", "IntOrDefault", "DurationOrDefault",
     "Float32OrDefault", "Float64OrDefault"}

TwoResultFns == {"String", "Bool", "Int", "Duration", "Float32", "Float64"}

TypeOf(fn) ==
    CASE fn \in {"StringOrDefault", "String", "MustString"} -> "string"
      [] fn \in {"BoolOrDefault", "Bool"} -> "bool"
      [] fn \in {"IntOrDefault", "Int"} -> "int"
      [] fn \in {"DurationOrDefault", "Duration"} -> "duration"
      [] fn \in {"Float32OrDefault", "Float32"} -> "float32"
      [] fn \in {"Float64OrDefault", "Float64"} -> "float64"

\* the zero value of a type
Zero(type) ==
    CASE type = "string" -> <<>>
      [] type = "bool" -> FALSE
      [] type = "int" -> 0
      [] type = "duration" -> ZeroDuration
      [] type = "float32" -> Zero32
      [] type = "float64" -> Zero64

\* what a value parses to as a type, and whether it fails to
Parse(type, v) ==
    CASE type = "string" -> [val |-> v, err |-> FALSE]
      [] type = "bool" -> ParseBool(v)
      [] type = "int" -> Atoi(v)
      [] type = "duration" -> ParseDuration(v)
      [] type = "float32" ->
            [val |-> Float32Of(ParseFloat(v).val), err |-> ParseFloat(v).err]
      [] type = "float64" -> ParseFloat(v)

Defaults(type) ==
    CASE type = "string" -> StringDefaults
      [] type = "bool" -> BoolDefaults
      [] type = "int" -> IntDefaults
      [] type = "duration" -> DurationDefaults
      [] type = "float32" -> Float32Defaults
      [] type = "float64" -> Float64Defaults

\* the outcome of the OrDefault function of a type
OrDefaultOf(type, key, d) ==
    CASE type = "string" -> StringOrDefault(key, d)
      [] type = "bool" -> BoolOrDefault(key, d)
      [] type = "int" -> IntOrDefault(key, d)
      [] type = "duration" -> DurationOrDefault(key, d)
      [] type = "float32" -> Float32OrDefault(key, d)
      [] type = "float64" -> Float64OrDefault(key, d)

\* the outcome of the two-result function of a type
TwoResultOf(type, key) ==
    CASE type = "string" -> String(key)
      [] type = "bool" -> Bool(key)
      [] type = "int" -> Int_(key)
      [] type = "duration" -> Duration(key)
      [] type = "float32" -> Float32(key)
      [] type = "float64" -> Float64(key)

Called == call.fn \in OrDefaultFns \cup TwoResultFns

\* C1: a call for a key that is not set returns the default (OrDefault
\* functions) or the zero value and false (two-result functions).
C1_UnsetKey ==
    (Called /\ call.key \notin DOMAIN env) =>
        /\ call.fn \in OrDefaultFns => ret = <<call.dflt>>
        /\ call.fn \in TwoResultFns => ret = <<Zero(TypeOf(call.fn)), FALSE>>

C1_Witness ==
    /\ call.fn = "DurationOrDefault"
    /\ call.key \notin DOMAIN env
    /\ call.dflt = Dur(FALSE, 0, 30, 0)
    /\ ret = <<Dur(FALSE, 0, 30, 0)>>

\* C2: a call for a key set to a value that parses returns the parsed value
\* (OrDefault functions), with true (two-result functions); for strings
\* every value parses, the empty one included.
C2_ParseableValue ==
    (Called /\ call.key \in DOMAIN env
        /\ ~Parse(TypeOf(call.fn), env[call.key]).err) =>
        /\ call.fn \in OrDefaultFns =>
             ret = <<Parse(TypeOf(call.fn), env[call.key]).val>>
        /\ call.fn \in TwoResultFns =>
             ret = <<Parse(TypeOf(call.fn), env[call.key]).val, TRUE>>

C2_Witness ==
    /\ call.fn = "StringOrDefault"
    /\ call.key \in DOMAIN env
    /\ env[call.key] = <<>>
    /\ call.dflt = <<".">>
    /\ ret = << <<>> >>

\* C3: a call for a key set to a value that does not parse returns what it
\* returns for a key that is not set, and does not panic.
C3_MalformedValue ==
    (Called /\ call.key \in DOMAIN env
        /\ Parse(TypeOf(call.fn), env[call.key]).err) =>
        /\ panic = NoPanic
        /\ call.fn \in OrDefaultFns => ret = <<call.dflt>>
        /\ call.fn \in TwoResultFns => ret = <<Zero(TypeOf(call.fn)), FALSE>>

C3_Witness ==
    /\ call.fn = "Float32"
    /\ call.key \in DOMAIN env
    /\ env[call.key] = <<"1", "e", "4", "0", "0">>
    /\ ret = <<Zero32, FALSE>>
    /\ panic = NoPanic

\* C4: MustString panics exactly when the key is not set, with a message
\* that names the key; for a set key, an empty value included, it returns
\* the value as it is.
C4_MustString ==
    call.fn = "MustString" =>
        /\ panic # NoPanic <=> call.key \notin DOMAIN env
        /\ panic # NoPanic => \E i \in 1..Len(panic) : panic[i] = call.key
        /\ call.key \in DOMAIN env => ret = <<env[call.key]>>

C4_Witness ==
    /\ call.fn = "MustString"
    /\ call.key \notin DOMAIN env
    /\ panic = MissingMessage(call.key)

\* C5: no call changes the environment, a panicking one included, and a
\* call repeated with the same arguments returns what it returned before.
C5_ReadOnly ==
    [][env' = env /\ (repeat'.same => ret' = repeat'.ret)]_vars

C5_Witness ==
    /\ call.fn = "StringOrDefault"
    /\ call.key \notin DOMAIN env
    /\ repeat.same
    /\ ret = repeat.ret

\* C9: the two functions of a parsed type agree on every key and default:
\* where the two-result function returns (v, true) the OrDefault function
\* returns v, and where it returns (_, false) the OrDefault function
\* returns the default.
C9_ModesAgree ==
    (Called /\ TypeOf(call.fn) # "string") =>
        /\ call.fn \in TwoResultFns =>
             \A d \in Defaults(TypeOf(call.fn)) :
                OrDefaultOf(TypeOf(call.fn), call.key, d).ret
                    = <<IF ret[2] THEN ret[1] ELSE d>>
        /\ call.fn \in OrDefaultFns =>
             ret = <<IF TwoResultOf(TypeOf(call.fn), call.key).ret[2]
                     THEN TwoResultOf(TypeOf(call.fn), call.key).ret[1]
                     ELSE call.dflt>>

C9_Witness ==
    /\ call.fn = "Duration"
    /\ call.key \in DOMAIN env
    /\ env[call.key] = <<>>
    /\ ret = <<ZeroDuration, FALSE>>
    /\ DurationOrDefault(call.key, Dur(FALSE, 0, 30, 0)).ret
         = <<Dur(FALSE, 0, 30, 0)>>

(***************************************************************************)
(* Properties of the scanner                                               *)
(***************************************************************************)
\* the last turn of the loop reached the test that ends the loop body
ReachedTest == cur.kind \in {"row", "filtered"}

\* C6: with -d a repository gets a row if and only if its current branch
\* differs from the default branch of the remote (the last segment of the
\* target of refs/remotes/origin/HEAD); without -d every repository that
\* reached the test gets a row
C6_DiffFilter ==
    ReachedTest =>
        (cur.kind = "row" <=>
            (~diffs \/ last(cur.world.head.name, "/")
                            # last(cur.world.originHead.name, "/")))

\* the list of base directories main takes when no argument is given
DefaultList ==
    Split(IF DefaultKey \in DOMAIN env THEN env[DefaultKey] ELSE Dot, " ")

\* C7: with no argument, when the process has exited every element of the
\* space-separated value of SHOWBRANCHES_DEFAULT (or ".") has been rendered,
\* in order, and the status is 0
C7_DefaultList ==
    (pc = "exited" /\ Len(argv.dirs) = 0) =>
        (rendered = DefaultList /\ exit = 0)

\* the last turn of the loop met a repository whose config has no "origin"
NoRemote ==
    /\ cur.kind # "none"
    /\ cur.entry.isDir
    /\ cur.world.open = "ok"
    /\ cur.world.config = "ok"
    /\ cur.world.abs = "ok"
    /\ ~cur.world.origin.present

\* C8: a repository with no "origin" remote never terminates the process
\* abnormally: it is left out (or shown) and the scan goes on
C8_NoRemote ==
    NoRemote => (pc # "panicked" /\ panic = NoPanic /\ cur.kind \in {"skip", "row"})

\* the last turn of the loop met a repository that lacks a reference the
\* loop asks for
LacksReference ==
    /\ cur.kind # "none"
    /\ cur.entry.isDir
    /\ cur.world.open = "ok"
    /\ cur.world.config = "ok"
    /\ cur.world.abs = "ok"
    /\ \/ cur.world.originHead.err = "notfound"
       \/ cur.world.originHead.err = "nil" /\ cur.world.head.err = "notfound"

\* the last turn of the loop met an error other than "not a repository" and
\* "reference not found"
UnexpectedError ==
    /\ cur.kind # "none"
    /\ cur.entry.isDir
    /\ \/ cur.world.open = "error"
       \/ cur.world.open = "ok" /\ cur.world.config = "error"
       \/ /\ cur.world.open = "ok"
          /\ cur.world.config = "ok"
          /\ cur.world.abs = "ok"
          /\ \/ cur.world.originHead.err = "error"
             \/ cur.world.originHead.err = "nil" /\ cur.world.head.err = "error"

\* the tables rendered so far are those of the base directories before base
RenderedBefore ==
    Len(rendered) = IF Len(argv.dirs) = 0 THEN 0 ELSE Len(argv.dirs) - Len(todo)

\* C10: an unexpected error (listing the base directory, opening an entry,
\* reading the config or a reference) panics before the table of that base
\* directory is rendered; entries that are not directories, not repositories
\* or repositories lacking a reference are skipped and the scan goes on
C10_ErrorsAndSkips ==
    /\ (panic = ErrReadDir \/ UnexpectedError) =>
            (pc = "panicked" /\ exit = 2 /\ RenderedBefore)
    /\ (cur.kind # "none" /\ ~cur.entry.isDir) =>
            (cur.kind = "skip" /\ pc # "panicked")
    /\ (cur.kind # "none" /\ cur.world.open = "notexists") =>
            (cur.kind = "skip" /\ pc # "panicked")
    /\ LacksReference => (cur.kind = "skip" /\ pc # "panicked")

====
